---- MODULE Spec2Model ----
(***************************************************************************)
(* The brute-force search engine of random.daolyap.dev (src/app.js): the   *)
(* RandomVisualizer coordinator, the worker script it generates            *)
(* (createWorkerCode) and the partitioning of the search space.            *)
(*                                                                         *)
(* Coordinator and workers exchange messages only.  chan[w] is the queue   *)
(* of events worker w has posted and the coordinator has not yet handled   *)
(* (FIFO per worker, any interleaving across workers).  Worker.terminate() *)
(* discards the worker's pending tasks and the undelivered messages of its *)
(* port (HTML Standard, "terminate a worker"), so StopSimulation empties   *)
(* chan and removes the worker.                                            *)
(***************************************************************************)
EXTENDS Integers, Sequences, FiniteSets, TLC

\* ---------------------------------------------------------------- bounds
MaxWorkers == 2      \* workerCount is drawn from 1..MaxWorkers in Spec
MaxBatch == 2        \* batchSize is drawn from 1..MaxBatch
SpaceSize == 3       \* totalCount() of the enumerable scheme, scaled down
MaxWords == 2        \* longest wordlist in Spec
MaxEvents == 4       \* events the workers of one run post
MaxBudget == 1       \* largest maxAttempts setting (0 = unlimited)
MaxTotal == 20       \* largest totalCount() in PartSpec
MaxList == 4         \* longest wordlist in PartSpec

\* ------------------------------------------------------ program constants
MaxWorkerCount == 16         \* the range of the workerCount control
OtpTotalCount == 1000000     \* ENUMERATORS.otp_6.totalCount()
HistoryLimit == 10           \* "Keep only last 10 attempts"

\* null, for a value (values are tuples) and for a scheme key (keys are strings)
NULL == << >>

NoScheme == ""

\* this.wordlistData = null
NoWordlist == [loaded |-> FALSE, lines |-> << >>]

\* the start message before it is built
NoTask == [schemeKey |-> NoScheme, target |-> NULL, batchSize |-> 0, workerId |-> 0,
           attackMethod |-> "", workerCount |-> 0, wordlistChunk |-> << >>]

Min(a, b) == IF a < b THEN a ELSE b

\* Math.ceil(a / b) for a >= 0, b > 0
Ceil(a, b) == (a + b - 1) \div b

\* ---------------------------------------------------------------- schemes
\* SCHEMES / GENERATORS: every scheme has a generator; ENUMERATORS holds
\* hex_color, otp_6 and ipv4 only.  One scheme of each kind is modelled.
SchemeKeys == {"otp_6", "uuid_v4"}

ENUMERATORS == {"otp_6"}

GENERATORS == {"otp_6", "uuid_v4"}

\* enumerator.totalCount()
TotalCount(key) == SpaceSize

\* enumerator.fromIndex(i): the index formatted as a value of the scheme
FromIndex(key, i) == <<key, i>>

\* the values generate() of a scheme can return: the whole space of an
\* enumerable scheme; two values stand for the space of the others
Generated(key) ==
    IF key \in ENUMERATORS THEN {<<key, i>> : i \in 0..(TotalCount(key) - 1)}
    ELSE {<<key, 0>>, <<key, 1>>}

\* ------------------------------------------------------------ partitioning
\* self.onmessage, sequential branch: the index range of worker workerId
IndexRangeOffByOne(workerId, workerCount, totalSpace) ==
    LET perWorker == Ceil(totalSpace, workerCount)
        startIdx == workerId * perWorker
    IN  [startIdx |-> startIdx, endIdx |-> Min(startIdx + perWorker, totalSpace - 1)]

IndexRangeFloor(workerId, workerCount, totalSpace) ==
    LET perWorker == totalSpace \div workerCount
        startIdx == workerId * perWorker
    IN  [startIdx |-> startIdx, endIdx |-> Min(startIdx + perWorker, totalSpace)]

IndexRange(workerId, workerCount, totalSpace) ==
    LET perWorker == Ceil(totalSpace, workerCount)
        startIdx == workerId * perWorker
    IN  [startIdx |-> startIdx, endIdx |-> Min(startIdx + perWorker, totalSpace)]

\* Array.prototype.slice(start, end) for start, end >= 0 (0-based, end exclusive)
Slice(list, start, end) ==
    LET k == Min(start, Len(list))
        final == Min(end, Len(list))
    IN  IF k >= final THEN << >> ELSE SubSeq(list, k + 1, final)

\* startSimulation, wordlist branch: the slice handed to worker i
WordlistChunkFloor(wordlistData, i, workerCount) ==
    LET chunkSize == Len(wordlistData) \div workerCount
        start == i * chunkSize
        end == Min(start + chunkSize, Len(wordlistData))
    IN  Slice(wordlistData, start, end)

WordlistChunk(wordlistData, i, workerCount) ==
    LET chunkSize == Ceil(Len(wordlistData), workerCount)
        start == i * chunkSize
        end == Min(start + chunkSize, Len(wordlistData))
    IN  Slice(wordlistData, start, end)


\* ------------------------------------------------------------------ state
WorkerIds == 0..(MaxWorkers - 1)

VARIABLES
    selectedScheme,    \* this.selectedScheme (NoScheme or a scheme key)
    targetValue,       \* this.targetValue (NULL or a value)
    wordlistData,      \* this.wordlistData (NoWordlist or the uploaded lines)
    controls,          \* the attackMethod, workerCount, speedLimit and maxAttempts inputs
    isRunning,         \* this.isRunning
    totalAttempts,     \* this.totalAttempts
    attemptHistory,    \* this.attemptHistory, newest first
    workerErrors,      \* this.workerErrors: the workerId of each recorded failure
    exhaustedWorkers,  \* this.exhaustedWorkers
    workers,           \* this.workers: the indices of the live Worker objects
    updateInterval,    \* this.updateInterval is set
    maxAttemptsCheck,  \* this.maxAttemptsCheck: 0 (null) or the budget it watches
    result,            \* the result panel
    wk,                \* the script state of each worker
    chan,              \* events posted by each worker, not yet handled
    obs,               \* history of the current run (not program state)
    plan               \* the partition computed in PartSpec / OtpSpec

vars == <<selectedScheme, targetValue, wordlistData, controls, isRunning, totalAttempts,
          attemptHistory, workerErrors, exhaustedWorkers, workers, updateInterval,
          maxAttemptsCheck, result, wk, chan, obs, plan>>

coordVars == <<selectedScheme, targetValue, wordlistData, controls, isRunning, totalAttempts,
               attemptHistory, workerErrors, exhaustedWorkers, workers,
               updateInterval, maxAttemptsCheck, result>>

\* a worker that does not exist (never created, or terminated)
NoWorker == [pc |-> "none", running |-> FALSE, task |-> NoTask, pos |-> 0,
             endIdx |-> 0]

\* the result panel while hidden (display: none)
Hidden == [shown |-> FALSE, className |-> "", message |-> "", value |-> NULL,
           totalAttempts |-> 0]

\* what has happened in the current run
NoObs == [run |-> FALSE,         \* a run was started
          events |-> 0,         \* events the workers posted
          posted |-> 0,         \* attempts of the Progress events they posted
          progress |-> 0,       \* attempts of the Progress events handled
          progressBy |-> {},    \* workers whose Progress was handled
          error |-> {},         \* workers whose Error event was handled
          fault |-> {},         \* workers whose onerror callback ran
          exhausted |-> {},     \* workers whose Exhausted event was handled
          match |-> {},         \* workers whose Match event was handled
          cause |-> "",         \* the call that ended the run
          dropped |-> 0,        \* undelivered events discarded when it ended
          live |-> {},          \* workers still searching when it ended
          compared |-> [w \in WorkerIds |-> 0],  \* candidates each worker compared
          stopped |-> FALSE]    \* ended by the stop button, reset or selectScheme

NoPlan == [mode |-> "none", total |-> 0, workerCount |-> 0, list |-> << >>,
           parts |-> << >>, done |-> FALSE]

\* the file a user uploads in Spec: the first n of these lines (distinct,
\* trimmed, non-empty entries)
WordFile(n) == [i \in 1..n |-> <<"otp_6", i - 1>>]

AttackMethods == {"random", "sequential", "wordlist"}

\* the values the controls can hold (scaled down)
Controls == [attackMethod : AttackMethods, workerCount : 1..MaxWorkers,
             speedLimit : 1..MaxBatch, maxAttempts : {0, MaxBudget}]

Init ==
    /\ selectedScheme = NoScheme
    /\ targetValue = NULL
    /\ wordlistData = NoWordlist
    /\ controls \in Controls
    /\ isRunning = FALSE
    /\ totalAttempts = 0
    /\ attemptHistory = << >>
    /\ workerErrors = << >>
    /\ exhaustedWorkers = {}
    /\ workers = {}
    /\ updateInterval = FALSE
    /\ maxAttemptsCheck = 0
    /\ result = Hidden
    /\ wk = [w \in WorkerIds |-> NoWorker]
    /\ chan = [w \in WorkerIds |-> << >>]
    /\ obs = NoObs
    /\ plan = NoPlan

\* ---------------------------------------------------------- worker script
\* the events a worker posts; "fault" is the error event the browser raises
\* on the Worker object when the script throws (worker.onerror)
Event(type, attempts, value, workerId) ==
    [type |-> type, attempts |-> attempts, value |-> value, workerId |-> workerId]

Step(self, out) == [wk |-> self, out |-> out]

Halt(self) == [self EXCEPT !.pc = "halted", !.running = FALSE]

\* a runBatch that gives up after a batch without match
RunBatchFinite(self, hit, last) ==
    IF ~self.running THEN [wk |-> [self EXCEPT !.pc = "halted"], out |-> << >>]
    ELSE IF hit
    THEN [wk |-> [self EXCEPT !.pc = "halted", !.running = FALSE],
          out |-> <<Event("match", 0, self.task.target, self.task.workerId)>>]
    ELSE [wk |-> [self EXCEPT !.pc = "halted", !.running = FALSE],
          out |-> <<Event("exhausted", 0, NULL, self.task.workerId)>>]

\* runBatch: Random mode.  hit: one of the batchSize generated values equals
\* the target; last: the last value generated when none does.
RunBatch(self, hit, last) ==
    IF ~self.running THEN Step([self EXCEPT !.pc = "halted"], << >>)
    ELSE IF hit
    THEN Step(Halt(self), <<Event("match", 0, self.task.target, self.task.workerId)>>)
    ELSE Step([self EXCEPT !.pc = "scheduled"],
              <<Event("progress", self.task.batchSize, last, self.task.workerId)>>)

\* a runSequentialBatch that does not look at the running flag
RunSequentialBatchNoisy(self, startIdx, endIdx) ==
    LET key == self.task.schemeKey
        batchEnd == Min(startIdx + self.task.batchSize, endIdx)
    IN  IF startIdx >= endIdx
        THEN [wk |-> [self EXCEPT !.pc = "halted", !.running = FALSE],
              out |-> <<Event("exhausted", 0, NULL, self.task.workerId)>>]
        ELSE IF \E i \in startIdx..(batchEnd - 1) : FromIndex(key, i) = self.task.target
        THEN [wk |-> [self EXCEPT !.pc = "halted", !.running = FALSE],
              out |-> <<Event("match", 0, self.task.target, self.task.workerId)>>]
        ELSE [wk |-> [self EXCEPT !.pc = "scheduled", !.pos = batchEnd, !.endIdx = endIdx],
              out |-> <<Event("progress", batchEnd - startIdx,
                              FromIndex(key, batchEnd - 1), self.task.workerId)>>]

\* a runSequentialBatch that reports a full batch whatever it tested
RunSequentialBatchFull(self, startIdx, endIdx) ==
    LET key == self.task.schemeKey
        batchEnd == Min(startIdx + self.task.batchSize, endIdx)
    IN  IF ~self.running \/ startIdx >= endIdx
        THEN IF self.running
             THEN [wk |-> [self EXCEPT !.pc = "halted", !.running = FALSE],
                   out |-> <<Event("exhausted", 0, NULL, self.task.workerId)>>]
             ELSE [wk |-> [self EXCEPT !.pc = "halted"], out |-> << >>]
        ELSE IF \E i \in startIdx..(batchEnd - 1) : FromIndex(key, i) = self.task.target
        THEN [wk |-> [self EXCEPT !.pc = "halted", !.running = FALSE],
              out |-> <<Event("match", 0, self.task.target, self.task.workerId)>>]
        ELSE [wk |-> [self EXCEPT !.pc = "scheduled", !.pos = batchEnd, !.endIdx = endIdx],
              out |-> <<Event("progress", self.task.batchSize,
                              FromIndex(key, batchEnd - 1), self.task.workerId)>>]

\* runSequentialBatch(enumerator, startIdx, endIdx)
RunSequentialBatch(self, startIdx, endIdx) ==
    LET key == self.task.schemeKey
        batchEnd == Min(startIdx + self.task.batchSize, endIdx)
        count == batchEnd - startIdx
    IN  IF ~self.running \/ startIdx >= endIdx
        THEN IF self.running
             THEN Step(Halt(self), <<Event("exhausted", 0, NULL, self.task.workerId)>>)
             ELSE Step([self EXCEPT !.pc = "halted"], << >>)
        ELSE IF \E i \in startIdx..(batchEnd - 1) : FromIndex(key, i) = self.task.target
        THEN Step(Halt(self), <<Event("match", 0, self.task.target, self.task.workerId)>>)
        ELSE Step([self EXCEPT !.pc = "scheduled", !.pos = batchEnd, !.endIdx = endIdx],
                  <<Event("progress", count, FromIndex(key, batchEnd - 1),
                          self.task.workerId)>>)

\* a runWordlistBatch that finishes the batch after a match
RunWordlistBatchLate(self, words, offset) ==
    LET batchEnd == Min(offset + self.task.batchSize, Len(words))
    IN  IF ~self.running \/ offset >= Len(words)
        THEN IF self.running
             THEN [wk |-> [self EXCEPT !.pc = "halted", !.running = FALSE],
                   out |-> <<Event("exhausted", 0, NULL, self.task.workerId)>>]
             ELSE [wk |-> [self EXCEPT !.pc = "halted"], out |-> << >>]
        ELSE IF \E i \in (offset + 1)..batchEnd : words[i] = self.task.target
        THEN [wk |-> [self EXCEPT !.pc = "scheduled", !.pos = batchEnd],
              out |-> <<Event("match", 0, self.task.target, self.task.workerId),
                        Event("progress", batchEnd - offset, words[batchEnd],
                              self.task.workerId)>>]
        ELSE [wk |-> [self EXCEPT !.pc = "scheduled", !.pos = batchEnd],
              out |-> <<Event("progress", batchEnd - offset, words[batchEnd],
                              self.task.workerId)>>]

\* runWordlistBatch(words, offset); offset counts from 0
RunWordlistBatch(self, words, offset) ==
    LET batchEnd == Min(offset + self.task.batchSize, Len(words))
        count == batchEnd - offset
    IN  IF ~self.running \/ offset >= Len(words)
        THEN IF self.running
             THEN Step(Halt(self), <<Event("exhausted", 0, NULL, self.task.workerId)>>)
             ELSE Step([self EXCEPT !.pc = "halted"], << >>)
        ELSE IF \E i \in (offset + 1)..batchEnd : words[i] = self.task.target
        THEN Step(Halt(self), <<Event("match", 0, self.task.target, self.task.workerId)>>)
        ELSE Step([self EXCEPT !.pc = "scheduled", !.pos = batchEnd],
                  <<Event("progress", count, words[batchEnd], self.task.workerId)>>)

\* self.onmessage for the start message
OnStart(self, hit, last) ==
    LET data == self.task
        started == [self EXCEPT !.running = TRUE]
    IN  IF data.schemeKey = NoScheme \/ data.target = NULL
        THEN Step([self EXCEPT !.pc = "halted"], << >>)
        ELSE IF data.attackMethod = "wordlist"
        THEN RunWordlistBatch(started, data.wordlistChunk, 0)
        ELSE IF data.attackMethod = "sequential"
        THEN IF data.schemeKey \notin ENUMERATORS
             THEN Step(Halt(started),
                       <<Event("error", 0, NULL, data.workerId),
                         Event("exhausted", 0, NULL, data.workerId)>>)
             ELSE LET r == IndexRange(data.workerId, data.workerCount,
                                      TotalCount(data.schemeKey))
                  IN  RunSequentialBatch(started, r.startIdx, r.endIdx)
        ELSE IF data.schemeKey \notin GENERATORS
        THEN Step([started EXCEPT !.pc = "halted"],
                  <<Event("error", 0, NULL, data.workerId)>>)
        ELSE RunBatch(started, hit, last)

\* the callback a batch scheduled with requestIdleCallback / setTimeout
OnBatch(self, hit, last) ==
    IF self.task.attackMethod = "wordlist"
    THEN RunWordlistBatch(self, self.task.wordlistChunk, self.pos)
    ELSE IF self.task.attackMethod = "sequential"
    THEN RunSequentialBatch(self, self.pos, self.endIdx)
    ELSE RunBatch(self, hit, last)

\* what a Random-mode batch can generate: it hits the target, or it ends
\* with another value of the scheme (one value stands for them all)
Misses(self) ==
    IF self.task.schemeKey \in GENERATORS /\ self.task.target # NULL
    THEN LET others == Generated(self.task.schemeKey) \ {self.task.target}
         IN  {v \in others : \A u \in others : v[2] <= u[2]}
    ELSE {}

IsRandom(self) == self.task.attackMethod \notin {"wordlist", "sequential"}

\* the progress (not program state) a worker step adds to the run's history
Posted(out) ==
    IF out # << >> /\ out[1].type = "progress" THEN out[1].attempts ELSE 0

\* the candidates the task that gave r compared with the target (not
\* program state): a batch without match compares all it reports; a batch
\* with a match returns at the first equal candidate, which a Random batch
\* may generate at any place
ComparedIn(self, r) ==
    LET task == self.task
        start == IF self.pc # "spawned" THEN self.pos
                 ELSE IF task.attackMethod = "sequential" /\ task.schemeKey \in ENUMERATORS
                 THEN IndexRange(task.workerId, task.workerCount,
                                 TotalCount(task.schemeKey)).startIdx
                 ELSE 0
    IN  IF r.out = << >> THEN {0}
        ELSE IF r.out[1].type = "progress" THEN {r.out[1].attempts}
        ELSE IF r.out[1].type # "match" THEN {0}
        ELSE IF task.attackMethod = "wordlist"
        THEN {i - start : i \in {j \in (start + 1)..Len(task.wordlistChunk) :
                                    task.wordlistChunk[j] = task.target}}
        ELSE IF task.attackMethod = "sequential"
        THEN {i - start + 1 : i \in {j \in start..(TotalCount(task.schemeKey) - 1) :
                                        FromIndex(task.schemeKey, j) = task.target}}
        ELSE 1..task.batchSize

WorkerStep(w, r) ==
    /\ wk' = [wk EXCEPT ![w] = r.wk]
    /\ chan' = [chan EXCEPT ![w] = @ \o r.out]
    /\ \E c \in ComparedIn(wk[w], r) :
          obs' = [obs EXCEPT !.posted = @ + Posted(r.out),
                             !.events = @ + Len(r.out),
                             !.compared[w] = @ + c]
    /\ UNCHANGED <<coordVars, plan>>

\* the worker handles its start message (and runs its first batch)
WorkerStart(w) ==
    /\ wk[w].pc = "spawned"
    /\ obs.events < MaxEvents
    /\ IF IsRandom(wk[w]) /\ Misses(wk[w]) # {}
       THEN \/ WorkerStep(w, OnStart(wk[w], TRUE, NULL))
            \/ \E last \in Misses(wk[w]) : WorkerStep(w, OnStart(wk[w], FALSE, last))
       ELSE WorkerStep(w, OnStart(wk[w], FALSE, NULL))

\* the worker runs a scheduled batch
WorkerBatch(w) ==
    /\ wk[w].pc = "scheduled"
    /\ obs.events < MaxEvents
    /\ IF IsRandom(wk[w])
       THEN \/ WorkerStep(w, OnBatch(wk[w], TRUE, NULL))
            \/ \E last \in Misses(wk[w]) : WorkerStep(w, OnBatch(wk[w], FALSE, last))
       ELSE WorkerStep(w, OnBatch(wk[w], FALSE, NULL))

\* the worker's script throws (a generator that throws, line 386, or any
\* runtime failure): the browser raises an error event on the Worker object
\* and the batch chain ends
WorkerFault(w) ==
    /\ wk[w].pc \in {"spawned", "scheduled"}
    /\ obs.events < MaxEvents
    /\ WorkerStep(w, Step([wk[w] EXCEPT !.pc = "halted"],
                          <<Event("fault", 0, NULL, -1)>>))

\* ------------------------------------------------------------ coordinator
\* worker.terminate() for every worker: pending tasks and undelivered
\* messages are discarded
TerminateKeepsMessages(ch) == [w \in WorkerIds |-> ch[w]]

Terminate(ch) == [w \in WorkerIds |-> << >>]

\* a stop that leaves the budget interval running
KeepInterval(check) == check

\* clearInterval(this.maxAttemptsCheck); this.maxAttemptsCheck = null
ClearInterval(check) == 0

RECURSIVE SumLen(_, _)
SumLen(ch, S) ==
    IF S = {} THEN 0
    ELSE LET w == CHOOSE x \in S : TRUE IN Len(ch[w]) + SumLen(ch, S \ {w})

\* a stop that drops the running flag and the timers but not the workers
StopSimulationLeak ==
    /\ isRunning' = FALSE
    /\ UNCHANGED <<workers, wk, chan>>
    /\ updateInterval' = FALSE
    /\ maxAttemptsCheck' = ClearInterval(maxAttemptsCheck)

\* stopSimulation(), as far as it changes the state
StopSimulation ==
    /\ isRunning' = FALSE
    /\ workers' = {}
    /\ wk' = [w \in WorkerIds |-> NoWorker]
    /\ chan' = Terminate(chan)
    /\ updateInterval' = FALSE
    /\ maxAttemptsCheck' = ClearInterval(maxAttemptsCheck)

\* what showResult(found, matchValue, reason) renders
ResultPanel(found, matchValue, reason, attempts) ==
    IF found
    THEN [shown |-> TRUE, className |-> "success", message |-> "match",
          value |-> matchValue, totalAttempts |-> attempts]
    ELSE [shown |-> TRUE, className |-> "failure",
          message |-> IF reason = "exhausted" THEN "exhausted" ELSE "maxAttempts",
          value |-> NULL, totalAttempts |-> attempts]

\* a showResult that renders the panel without stopping the simulation
ShowResultOnly(found, matchValue, reason) ==
    /\ result' = ResultPanel(found, matchValue, reason, totalAttempts)
    /\ UNCHANGED <<isRunning, workers, wk, chan, updateInterval, maxAttemptsCheck>>

\* showResult(found, matchValue = null, reason = 'maxAttempts')
ShowResult(found, matchValue, reason) ==
    /\ StopSimulation
    /\ result' = ResultPanel(found, matchValue, reason, totalAttempts)

\* the run's history when a call ends it; handled: the event being handled
Ended(o, cause, handled) ==
    [o EXCEPT !.cause = cause, !.dropped = SumLen(chan, WorkerIds) - handled,
              !.live = {w \in WorkerIds : wk[w].pc \in {"spawned", "scheduled"}}]

\* a reset that keeps the target
ResetKeepsTarget ==
    /\ StopSimulation
    /\ targetValue' = targetValue
    /\ totalAttempts' = 0
    /\ attemptHistory' = << >>
    /\ exhaustedWorkers' = {}
    /\ result' = Hidden
    /\ obs' = NoObs

\* reset()
Reset ==
    /\ StopSimulation
    /\ targetValue' = NULL
    /\ totalAttempts' = 0
    /\ attemptHistory' = << >>
    /\ exhaustedWorkers' = {}
    /\ result' = Hidden
    /\ obs' = NoObs

\* the reset button
ResetClick ==
    /\ Reset
    /\ UNCHANGED <<selectedScheme, wordlistData, controls, workerErrors, plan>>

\* selectScheme(key): a click on a scheme card
SelectScheme(key) ==
    /\ selectedScheme' = key
    /\ Reset
    /\ UNCHANGED <<wordlistData, controls, workerErrors, plan>>

\* generateTarget(); the button is disabled while a run is active
GenerateTarget(v) ==
    /\ selectedScheme # NoScheme
    /\ ~isRunning
    /\ v \in Generated(selectedScheme)
    /\ targetValue' = v
    /\ UNCHANGED <<selectedScheme, wordlistData, controls, isRunning, totalAttempts,
                   attemptHistory, workerErrors, exhaustedWorkers, workers,
                   updateInterval, maxAttemptsCheck, result, wk, chan, obs, plan>>

\* handleWordlistUpload: the lines of the file, or null without a file
HandleWordlistUpload(data) ==
    /\ wordlistData' = data
    /\ UNCHANGED <<selectedScheme, targetValue, controls, isRunning, totalAttempts,
                   attemptHistory, workerErrors, exhaustedWorkers, workers,
                   updateInterval, maxAttemptsCheck, result, wk, chan, obs, plan>>

\* the user changes the attack method, worker count, batch size or budget
SetControls(c) ==
    /\ controls' = c
    /\ UNCHANGED <<selectedScheme, targetValue, wordlistData, isRunning, totalAttempts,
                   attemptHistory, workerErrors, exhaustedWorkers, workers,
                   updateInterval, maxAttemptsCheck, result, wk, chan, obs, plan>>

\* the stop button
StopClick ==
    /\ StopSimulation
    /\ obs' = IF isRunning THEN [Ended(obs, "stop", 0) EXCEPT !.stopped = TRUE] ELSE obs
    /\ UNCHANGED <<selectedScheme, targetValue, wordlistData, controls, totalAttempts,
                   attemptHistory, workerErrors, exhaustedWorkers, result, plan>>

\* the start message of worker i
StartTask(i, attackMethod, workerCount, speedLimit) ==
    [schemeKey |-> selectedScheme, target |-> targetValue, batchSize |-> speedLimit,
     workerId |-> i, attackMethod |-> attackMethod, workerCount |-> workerCount,
     wordlistChunk |-> IF attackMethod = "wordlist"
                       THEN WordlistChunk(wordlistData.lines, i, workerCount)
                       ELSE << >>]

\* if (!this.targetValue || this.isRunning) return
NotStartable == targetValue = NULL \/ isRunning

\* a validation that accepts an uploaded file without entries
WordlistMissingOnlyNull(attackMethod) ==
    attackMethod = "wordlist" /\ ~wordlistData.loaded

\* "Validate wordlist mode"
WordlistMissing(attackMethod) ==
    attackMethod = "wordlist" /\ (~wordlistData.loaded \/ Len(wordlistData.lines) = 0)

\* a start that keeps the failures the previous run recorded
SpawnWorkersKeepsErrors(attackMethod, workerCount, speedLimit, maxAttempts) ==
    /\ isRunning' = TRUE
    /\ totalAttempts' = 0
    /\ attemptHistory' = << >>
    /\ workerErrors' = workerErrors
    /\ exhaustedWorkers' = {}
    /\ result' = Hidden
    /\ workers' = 0..(workerCount - 1)
    /\ wk' = [w \in WorkerIds |->
                IF w < workerCount
                THEN [NoWorker EXCEPT !.pc = "spawned",
                         !.task = StartTask(w, attackMethod, workerCount, speedLimit)]
                ELSE NoWorker]
    /\ updateInterval' = TRUE
    /\ maxAttemptsCheck' = IF maxAttempts > 0 THEN maxAttempts ELSE 0
    /\ obs' = [NoObs EXCEPT !.run = TRUE]
    /\ UNCHANGED <<selectedScheme, targetValue, wordlistData, controls, chan, plan>>

\* startSimulation() past its guards, with the values of the controls: the
\* counters and records are reset and the workers created and started
StartRun(attackMethod, workerCount, speedLimit, maxAttempts) ==
    /\ isRunning' = TRUE
    /\ totalAttempts' = 0
    /\ attemptHistory' = << >>
    /\ workerErrors' = << >>
    /\ exhaustedWorkers' = {}
    /\ result' = Hidden
    /\ workers' = 0..(workerCount - 1)
    /\ wk' = [w \in WorkerIds |->
                IF w < workerCount
                THEN [NoWorker EXCEPT !.pc = "spawned",
                         !.task = StartTask(w, attackMethod, workerCount, speedLimit)]
                ELSE NoWorker]
    /\ updateInterval' = TRUE
    /\ maxAttemptsCheck' = IF maxAttempts > 0 THEN maxAttempts ELSE 0
    /\ obs' = [NoObs EXCEPT !.run = TRUE]
    /\ UNCHANGED <<selectedScheme, targetValue, wordlistData, controls, chan>>

SpawnWorkers(attackMethod, workerCount, speedLimit, maxAttempts) ==
    /\ StartRun(attackMethod, workerCount, speedLimit, maxAttempts)
    /\ UNCHANGED plan

\* startSimulation(): the start button
StartSimulation ==
    IF NotStartable \/ WordlistMissing(controls.attackMethod) THEN UNCHANGED vars
    ELSE SpawnWorkers(controls.attackMethod, controls.workerCount,
                      controls.speedLimit, controls.maxAttempts)

\* the maxAttemptsCheck interval fires
MaxAttemptsTick ==
    /\ maxAttemptsCheck > 0
    /\ IF totalAttempts >= maxAttemptsCheck
       THEN /\ ShowResult(FALSE, NULL, "maxAttempts")
            /\ obs' = Ended(obs, "budget", 0)
            /\ UNCHANGED <<selectedScheme, targetValue, wordlistData, controls, totalAttempts,
                           attemptHistory, workerErrors, exhaustedWorkers, plan>>
       ELSE UNCHANGED vars

\* const effectiveWorkerId = msgWorkerId !== undefined ? msgWorkerId : workerId
EffectiveWorkerId(msgWorkerId, workerId) ==
    IF msgWorkerId # -1 THEN msgWorkerId ELSE workerId

\* a history that drops the newest entry instead of the oldest
PushHistoryDropNewest(history, entry) ==
    LET h == <<entry>> \o history
    IN  IF Len(h) > HistoryLimit THEN Tail(h) ELSE h

\* unshift the entry, then pop beyond the last 10
PushHistory(history, entry) ==
    LET h == <<entry>> \o history
    IN  IF Len(h) > HistoryLimit THEN SubSeq(h, 1, Len(h) - 1) ELSE h

\* "If all workers have failed, stop the simulation"
AllWorkersFailedStrict(errors, ws) ==
    Cardinality(ws) > 0 /\ Len(errors) > Cardinality(ws)

AllWorkersFailed(errors, ws) ==
    Cardinality(ws) > 0 /\ Len(errors) >= Cardinality(ws)

\* "If all workers are exhausted or have failed, show failure"
AllWorkersCompletedStrict(exhausted, errors, ws) ==
    Cardinality(ws) > 0 /\ Cardinality(exhausted) + Len(errors) > Cardinality(ws)

AllWorkersCompleted(exhausted, errors, ws) ==
    Cardinality(ws) > 0 /\ Cardinality(exhausted) + Len(errors) >= Cardinality(ws)

Pending(w, type) == chan[w] # << >> /\ Head(chan[w]).type = type

Handled(w) == chan' = [chan EXCEPT ![w] = Tail(@)]

\* the attempts a Progress event adds to totalAttempts
ProgressAttemptsBatch(data, batchSize) == batchSize

ProgressAttempts(data, batchSize) == data.attempts

\* handleWorkerMessage, type === 'progress'
HandleProgress(w) ==
    /\ Pending(w, "progress")
    /\ LET data == Head(chan[w])
           id == EffectiveWorkerId(data.workerId, w)
       IN  /\ totalAttempts' = totalAttempts + ProgressAttempts(data, controls.speedLimit)
           /\ attemptHistory' = PushHistory(attemptHistory,
                                            [value |-> data.value, workerId |-> id])
           /\ obs' = [obs EXCEPT !.progress = @ + data.attempts,
                                 !.progressBy = @ \cup {w}]
    /\ Handled(w)
    /\ UNCHANGED <<selectedScheme, targetValue, wordlistData, controls, isRunning, workerErrors,
                   exhaustedWorkers, workers, updateInterval, maxAttemptsCheck,
                   result, wk, plan>>

\* handleWorkerMessage, type === 'match'
HandleMatch(w) ==
    /\ Pending(w, "match")
    /\ ShowResult(TRUE, Head(chan[w]).value, "maxAttempts")
    /\ obs' = [Ended(obs, "match", 1) EXCEPT !.match = @ \cup {w}]
    /\ UNCHANGED <<selectedScheme, targetValue, wordlistData, controls, totalAttempts,
                   attemptHistory, workerErrors, exhaustedWorkers, plan>>

\* handleWorkerMessage, type === 'error'
HandleError(w) ==
    /\ Pending(w, "error")
    /\ LET data == Head(chan[w])
           id == EffectiveWorkerId(data.workerId, w)
           errors == Append(workerErrors, id)
           seen == [obs EXCEPT !.error = @ \cup {w}]
       IN  /\ workerErrors' = errors
           /\ IF AllWorkersFailed(errors, workers)
              THEN /\ ShowResult(FALSE, NULL, "maxAttempts")
                   /\ obs' = Ended(seen, "allFailed", 1)
              ELSE /\ Handled(w)
                   /\ obs' = seen
                   /\ UNCHANGED <<isRunning, workers, wk, updateInterval,
                                  maxAttemptsCheck, result>>
    /\ UNCHANGED <<selectedScheme, targetValue, wordlistData, controls, totalAttempts,
                   attemptHistory, exhaustedWorkers, plan>>

\* handleWorkerMessage, type === 'exhausted'
HandleExhausted(w) ==
    /\ Pending(w, "exhausted")
    /\ LET data == Head(chan[w])
           id == EffectiveWorkerId(data.workerId, w)
           exhausted == exhaustedWorkers \cup {id}
           seen == [obs EXCEPT !.exhausted = @ \cup {w}]
       IN  /\ exhaustedWorkers' = exhausted
           /\ IF AllWorkersCompleted(exhausted, workerErrors, workers)
              THEN /\ ShowResult(FALSE, NULL, "exhausted")
                   /\ obs' = Ended(seen, "exhausted", 1)
              ELSE /\ Handled(w)
                   /\ obs' = seen
                   /\ UNCHANGED <<isRunning, workers, wk, updateInterval,
                                  maxAttemptsCheck, result>>
    /\ UNCHANGED <<selectedScheme, targetValue, wordlistData, controls, totalAttempts,
                   attemptHistory, workerErrors, plan>>

\* handleWorkerError(e, workerId): worker.onerror
HandleWorkerError(w) ==
    /\ Pending(w, "fault")
    /\ workerErrors' = Append(workerErrors, w)
    /\ obs' = [obs EXCEPT !.fault = @ \cup {w}]
    /\ Handled(w)
    /\ UNCHANGED <<selectedScheme, targetValue, wordlistData, controls, isRunning,
                   totalAttempts, attemptHistory, exhaustedWorkers, workers,
                   updateInterval, maxAttemptsCheck, result, wk, plan>>

\* ---------------------------------------------------------- specification
Uploads == {NoWordlist} \cup {[loaded |-> TRUE, lines |-> WordFile(n)] : n \in 0..MaxWords}

\* the order of the user's steps in Spec: the target, the wordlist and the
\* controls are chosen before the first run that follows a reset; the
\* controls before a wordlist is uploaded, and a wordlist only in Wordlist
\* mode (updateAttackMethodUI hides the file input in the other modes)
Configuring == ~isRunning /\ obs = NoObs

\* SCHEMES[key].generate() for the target: the values of a scheme without
\* enumerator are interchangeable, the first stands for them
Targets(key) == IF key \in ENUMERATORS THEN Generated(key) ELSE {<<key, 0>>}

Next ==
    \/ \E key \in SchemeKeys : SelectScheme(key)
    \/ Configuring /\ \E v \in UNION {Targets(k) : k \in SchemeKeys} : GenerateTarget(v)
    \/ Configuring /\ controls.attackMethod = "wordlist"
                   /\ \E data \in Uploads : HandleWordlistUpload(data)
    \/ Configuring /\ wordlistData = NoWordlist /\ \E c \in Controls : SetControls(c)
    \/ StartSimulation
    \/ StopClick
    \/ ResetClick
    \/ MaxAttemptsTick
    \/ \E w \in WorkerIds : WorkerStart(w)
    \/ \E w \in WorkerIds : WorkerBatch(w)
    \/ \E w \in WorkerIds : WorkerFault(w)
    \/ \E w \in WorkerIds : HandleProgress(w)
    \/ \E w \in WorkerIds : HandleMatch(w)
    \/ \E w \in WorkerIds : HandleError(w)
    \/ \E w \in WorkerIds : HandleExhausted(w)
    \/ \E w \in WorkerIds : HandleWorkerError(w)

Spec == Init /\ [][Next]_vars

\* ------------------------------------------- the partition, on its own
\* PartSpec computes the partition of every total 1..MaxTotal and of every
\* wordlist of at most MaxList entries for every workerCount 1..16, as the
\* workers (sequential) and startSimulation (wordlist) compute it.
PartValues == {<<"w", i>> : i \in 1..MaxList}

IsDistinct(q) == \A i, j \in 1..Len(q) : i # j => q[i] # q[j]

\* the lists of at most n distinct entries of S (an upload is deduplicated)
Wordlists(S, n) == UNION {{q \in [1..k -> S] : IsDistinct(q)} : k \in 0..n}

PartWordlists == Wordlists(PartValues, MaxList) \ {<< >>}

Idle ==
    /\ selectedScheme = NoScheme
    /\ targetValue = NULL
    /\ wordlistData = NoWordlist
    /\ controls = [attackMethod |-> "random", workerCount |-> 1, speedLimit |-> 1,
                   maxAttempts |-> 0]
    /\ isRunning = FALSE
    /\ totalAttempts = 0
    /\ attemptHistory = << >>
    /\ workerErrors = << >>
    /\ exhaustedWorkers = {}
    /\ workers = {}
    /\ updateInterval = FALSE
    /\ maxAttemptsCheck = 0
    /\ result = Hidden
    /\ wk = [w \in WorkerIds |-> NoWorker]
    /\ chan = [w \in WorkerIds |-> << >>]
    /\ obs = NoObs

\* a partition to compute: the mode, the total or the list, the worker count
PartInputs ==
    {[NoPlan EXCEPT !.mode = "sequential", !.total = t, !.workerCount = n] :
        t \in 1..MaxTotal, n \in 1..MaxWorkerCount}
    \cup {[NoPlan EXCEPT !.mode = "wordlist", !.total = Len(q), !.list = q,
                         !.workerCount = n] :
             q \in PartWordlists, n \in 1..MaxWorkerCount}

PartInit == Idle /\ plan \in PartInputs

\* the ranges the workers 0..workerCount-1 of a Sequential run compute
PlanSequential ==
    /\ plan.mode = "sequential" /\ ~plan.done
    /\ plan' = [plan EXCEPT !.done = TRUE,
                  !.parts = [i \in 1..plan.workerCount |->
                               IndexRange(i - 1, plan.workerCount, plan.total)]]
    /\ UNCHANGED <<coordVars, wk, chan, obs>>

\* the slices startSimulation hands to the workers of a Wordlist run
PlanWordlist ==
    /\ plan.mode = "wordlist" /\ ~plan.done
    /\ plan' = [plan EXCEPT !.done = TRUE,
                  !.parts = [i \in 1..plan.workerCount |->
                               WordlistChunk(plan.list, i - 1, plan.workerCount)]]
    /\ UNCHANGED <<coordVars, wk, chan, obs>>

PartNext == PlanSequential \/ PlanWordlist

PartSpec == PartInit /\ [][PartNext]_vars

\* OtpSpec: a Sequential run on otp_6 with 1..16 workers; the workers
\* compute their ranges one after the other, in the order they are started.
OtpInit ==
    /\ Idle
    /\ plan \in {[NoPlan EXCEPT !.mode = "otp_6", !.total = OtpTotalCount,
                                !.workerCount = n] : n \in 1..MaxWorkerCount}

OtpWorker ==
    /\ plan.mode = "otp_6"
    /\ Len(plan.parts) < plan.workerCount
    /\ plan' = [plan EXCEPT
                  !.parts = Append(@, IndexRange(Len(@), plan.workerCount, plan.total)),
                  !.done = (Len(plan.parts) + 1 = plan.workerCount)]
    /\ UNCHANGED <<coordVars, wk, chan, obs>>

OtpNext == OtpWorker

OtpSpec == OtpInit /\ [][OtpNext]_vars

\* ----------------------------------------------------------------- claims
\* the indices of [0, total) that range r holds
Indices(r, total) == {k \in 0..(total - 1) : r.startIdx <= k /\ k < r.endIdx}

\* the concatenation of the slices, in worker order
RECURSIVE Concat(_)
Concat(parts) ==
    IF parts = << >> THEN << >> ELSE Head(parts) \o Concat(Tail(parts))

\* C1: Sequential partition completeness: for every workerCount in 1..16 and
\* every total, each index of [0, total) lies in the range of exactly one
\* worker, no range reaches outside [0, total), and a worker whose start is
\* at or past the total has an empty range.
C1_SequentialPartition ==
    plan.mode = "sequential" /\ plan.done =>
        /\ \A k \in 0..(plan.total - 1) :
              Cardinality({i \in 1..plan.workerCount :
                             k \in Indices(plan.parts[i], plan.total)}) = 1
        /\ \A i \in 1..plan.workerCount :
              /\ plan.parts[i].startIdx >= 0
              /\ plan.parts[i].endIdx <= plan.total
              /\ plan.parts[i].startIdx >= plan.total
                    => plan.parts[i].endIdx <= plan.parts[i].startIdx

\* C1 witness: a total the worker count does not divide, with a shorter last
\* range and a surplus worker whose start lies past the total
C1_Witness ==
    /\ plan.mode = "sequential" /\ plan.done
    /\ plan.total = 5 /\ plan.workerCount = 4
    /\ plan.parts[3] = [startIdx |-> 4, endIdx |-> 5]
    /\ plan.parts[4].startIdx > plan.total

\* C2: Wordlist partition completeness: for every non-empty wordlist and
\* every workerCount in 1..16 the slices of workers 0..workerCount-1,
\* concatenated in worker order, are the original list.
C2_WordlistPartition ==
    plan.mode = "wordlist" /\ plan.done => Concat(plan.parts) = plan.list

\* C2 witness: fewer entries than workers, so surplus workers get empty slices
C2_Witness ==
    /\ plan.mode = "wordlist" /\ plan.done
    /\ Len(plan.list) = 3 /\ plan.workerCount = 5
    /\ plan.parts[3] # << >> /\ plan.parts[4] = << >> /\ plan.parts[5] = << >>

Range(a, b) == [startIdx |-> a, endIdx |-> b]

\* the ranges tile [0, total): each begins where the one before ends
Tiles(parts, total) ==
    /\ parts[1].startIdx = 0
    /\ \A i \in 1..(Len(parts) - 1) : parts[i].endIdx = parts[i + 1].startIdx
    /\ \A i \in 1..Len(parts) : parts[i].startIdx < parts[i].endIdx
    /\ parts[Len(parts)].endIdx = total

OtpThree == plan.mode = "otp_6" /\ plan.workerCount = 3 /\ plan.done

\* C3 as stated: on otp_6 with 3 workers the ranges are [0,333334),
\* [333334,666667) and [666668,1000000), and they cover [0,1000000) with no
\* overlap and no gap.
C3_AsStated ==
    OtpThree =>
        /\ plan.parts = <<Range(0, 333334), Range(333334, 666667),
                          Range(666668, 1000000)>>
        /\ Tiles(plan.parts, OtpTotalCount)

\* C3 amended: on otp_6 with 3 workers the ranges are [0,333334),
\* [333334,666668) and [666668,1000000), and they cover [0,1000000) with no
\* overlap and no gap.
C3_OtpRanges ==
    OtpThree =>
        /\ plan.parts = <<Range(0, 333334), Range(333334, 666668),
                          Range(666668, 1000000)>>
        /\ Tiles(plan.parts, OtpTotalCount)

\* C3 witness: the three workers of the otp_6 run have computed their ranges
C3_Witness == OtpThree /\ plan.total = 1000000

\* ------------------------------------------------------ claims on the run
\* the workers of the current run
RunWorkers == 0..(controls.workerCount - 1)

\* a step that stays within the current run (no start, reset or new scheme)
SameRun == obs.run /\ obs'.run /\ ~(isRunning' /\ ~isRunning)

\* the workers that have reported an Error event or failed through onerror
Errored == obs.error \cup obs.fault

\* C4: Match precedence: once a Match event of a run has been processed, no
\* later step of that run (an event of any of its workers, or a budget
\* check) changes the outcome or totalAttempts: the run stays ended, with the
\* success panel showing the value first reported.
C4_MatchPrecedence ==
    [][obs.cause = "match" /\ SameRun =>
          /\ ~isRunning'
          /\ result' = result
          /\ result.className = "success" /\ result.value = targetValue
          /\ totalAttempts' = totalAttempts
          /\ obs'.cause = "match"]_vars

\* C4 witness: a run ended by a Match while events of its workers were
\* still undelivered
C4_Witness ==
    /\ obs.cause = "match" /\ obs.dropped > 0
    /\ result.className = "success" /\ controls.workerCount = 2

\* C5: in every state of a run totalAttempts is the sum of the attempts of
\* the Progress events processed since start; within a run it never
\* decreases, and a step that processes no Progress event leaves it unchanged.
C5_TotalAttempts ==
    /\ [](totalAttempts = obs.progress)
    /\ [][SameRun =>
             /\ totalAttempts' >= totalAttempts
             /\ obs'.progress = obs.progress => totalAttempts' = totalAttempts]_vars

\* C5 witness: Progress events of both workers processed, interleaved with
\* an Exhausted event
C5_Witness ==
    /\ isRunning /\ Cardinality(obs.progressBy) = 2 /\ obs.exhausted # {}
    /\ totalAttempts = 2

\* C6: Exhaustion termination: in a Sequential or Wordlist run without worker
\* error and without match, once the Exhausted event of every worker has been
\* processed the run has ended as a failure with reason "exhausted", and
\* totalAttempts is the sum of the attempts of all Progress events posted.
C6_ExhaustionTermination ==
    /\ obs.run /\ controls.attackMethod \in {"sequential", "wordlist"}
    /\ Errored = {} /\ obs.match = {}
    /\ obs.exhausted = RunWorkers
    => /\ ~isRunning
       /\ result.shown /\ result.className = "failure"
       /\ result.message = "exhausted"
       /\ totalAttempts = obs.posted /\ result.totalAttempts = obs.posted

\* C6 witness: two workers searched their slices and both exhausted them
C6_Witness ==
    /\ obs.cause = "exhausted" /\ Errored = {} /\ obs.exhausted = {0, 1}
    /\ controls.workerCount = 2 /\ totalAttempts = 2

\* C7: in a pool of 2 workers where worker 0 has reported an error and
\* worker 1 Exhausted, and nothing else ended the run, the run has ended with
\* reason "exhausted", whichever of the two was processed first.
C7_ErrorAndExhausted ==
    /\ obs.run /\ controls.workerCount = 2
    /\ Errored = {0} /\ obs.exhausted = {1} /\ obs.match = {}
    /\ ~obs.stopped /\ obs.cause # "budget"
    => /\ ~isRunning
       /\ result.shown /\ result.message = "exhausted"

\* C8: the completed-worker count never exceeds the number of distinct
\* workers that have finished, and a run of 2 or more workers is not ended
\* by that count while a worker has reported neither Match, Exhausted nor
\* an error.
C8_CountedOnce ==
    obs.run =>
        /\ Cardinality(exhaustedWorkers) + Len(workerErrors)
              <= Cardinality(obs.exhausted \cup Errored)
        /\ controls.workerCount >= 2 /\ obs.cause \in {"exhausted", "allFailed"}
              => RunWorkers \subseteq (obs.exhausted \cup Errored \cup obs.match)

\* C9: when every worker of a run has reported an Error event (none matched),
\* the run has ended as a failure with the processing of the last of them.
C9_AllWorkersFailed ==
    obs.run /\ obs.error = RunWorkers /\ obs.match = {}
    => /\ ~isRunning
       /\ result.shown /\ result.className = "failure"

\* C9 witness: both workers of a run reported Error and the second Error
\* ended the run
C9_Witness ==
    /\ controls.workerCount = 2 /\ obs.error = {0, 1} /\ obs.exhausted = {}
    /\ obs.cause = "allFailed" /\ ~isRunning

\* the outcomes that end a run with a result
Outcomes == {"match", "exhausted", "budget", "allFailed"}

\* the reason each outcome's call of showResult surfaces
Surfaced(outcome) ==
    IF outcome = "match" THEN ResultPanel(TRUE, NULL, "maxAttempts", 0).message
    ELSE IF outcome = "exhausted" THEN ResultPanel(FALSE, NULL, "exhausted", 0).message
    ELSE ResultPanel(FALSE, NULL, "maxAttempts", 0).message

\* C10: a run ended as found, exhausted, budget reached or all workers
\* failed surfaces a reason that no other of these four outcomes surfaces.
C10_DistinctReasons ==
    obs.cause \in Outcomes =>
        /\ result.shown /\ result.message = Surfaced(obs.cause)
        /\ \A other \in Outcomes \ {obs.cause} : result.message # Surfaced(other)

\* C11: Budget cutoff: a budget check that observes totalAttempts >=
\* maxAttempts (maxAttempts > 0) in an active run ends the run as a failure,
\* workers still active or not; with maxAttempts = 0 no budget check exists
\* and no run is ended for budget reasons, whatever totalAttempts reaches.
C11_BudgetCutoff ==
    /\ [](obs.run /\ controls.maxAttempts = 0
             => maxAttemptsCheck = 0 /\ obs.cause # "budget")
    /\ [][MaxAttemptsTick /\ isRunning /\ controls.maxAttempts > 0
             /\ totalAttempts >= controls.maxAttempts
          => /\ ~isRunning' /\ workers' = {}
             /\ \A w \in WorkerIds : wk'[w] = NoWorker
             /\ result'.shown /\ result'.className = "failure"
             /\ result'.totalAttempts = totalAttempts]_vars

\* C11 witness: a run ended by the budget check while a worker was still
\* searching
C11_Witness ==
    /\ obs.cause = "budget" /\ obs.live # {} /\ ~isRunning
    /\ controls.maxAttempts > 0 /\ totalAttempts >= controls.maxAttempts
    /\ result.className = "failure"

\* a run without budget whose totalAttempts passed every budget of the model
C11_WitnessUnlimited ==
    isRunning /\ controls.maxAttempts = 0 /\ totalAttempts > MaxBudget

\* the cases in which start is to be rejected
StartRejected ==
    \/ isRunning
    \/ targetValue = NULL
    \/ /\ controls.attackMethod = "wordlist"
       /\ (wordlistData = NoWordlist \/ Len(wordlistData.lines) = 0)

\* the run state and what lives with it
runState == <<isRunning, totalAttempts, attemptHistory, exhaustedWorkers,
              workerErrors, workers, wk, chan, updateInterval, maxAttemptsCheck,
              result>>

\* C12: start has no effect when a run is active, when no target is set, or
\* when the mode is Wordlist and the wordlist is missing or empty: the run
\* state, the workers and the timers are unchanged, and a run only begins
\* from a state in which none of the three holds.
C12_StartRejected ==
    /\ [][StartSimulation /\ StartRejected => UNCHANGED runState]_vars
    /\ [][StartRejected => (workers' \subseteq workers /\ (isRunning' => isRunning))]_vars

\* C12 witness: the start button pressed in Wordlist mode with an uploaded
\* file that holds no entry, a target set and no run active
C12_Witness ==
    /\ ~isRunning /\ targetValue # NULL /\ controls.attackMethod = "wordlist"
    /\ wordlistData.loaded /\ Len(wordlistData.lines) = 0
    /\ ENABLED StartSimulation

\* C13: a Sequential run for a scheme without enumerator is refused at
\* start: no such run is ever Running and no worker exists for it.
C13_SequentialNeedsEnumerator ==
    controls.attackMethod = "sequential" /\ selectedScheme \notin ENUMERATORS
    => /\ ~isRunning /\ ~obs.run
       /\ workers = {}
       /\ \A w \in WorkerIds : wk[w] = NoWorker

\* no run active, no live worker, no event in flight, no timer pending
Quiet ==
    /\ ~isRunning /\ workers = {}
    /\ \A w \in WorkerIds : wk[w] = NoWorker /\ chan[w] = << >>
    /\ ~updateInterval /\ maxAttemptsCheck = 0

\* C14: stop in any state leaves the run not active, without live worker and
\* without pending budget check or UI timer; stop when no run is active (a
\* second stop included) changes nothing.
C14_StopIdempotent ==
    [][StopClick => Quiet' /\ (~isRunning => UNCHANGED vars)]_vars

\* C14 witness: a run stopped while workers were searching and events were
\* undelivered; a second stop is possible in that state
C14_Witness ==
    /\ obs.cause = "stop" /\ obs.live # {} /\ obs.dropped > 0 /\ totalAttempts > 0
    /\ Quiet /\ ENABLED StopClick

\* C15: No worker leak: whenever the run is not active (before the first
\* run, and after a match, a stop, a reset, exhaustion, the failure of all
\* workers or the budget cutoff) no worker is live, every worker spawned has
\* been terminated, and the budget-check and UI timers are cleared.
C15_NoWorkerLeak ==
    /\ ~isRunning => Quiet
    /\ obs.cause \in Outcomes \cup {"stop"} => ~isRunning

\* C15 witness: a run ended through the completed-worker count while one of
\* its workers was still live
C15_Witness ==
    /\ obs.cause = "exhausted" /\ obs.live # {} /\ controls.workerCount = 2
    /\ Quiet

\* the coordinator is Idle: nothing runs, nothing is left of a run, no target
IdleState ==
    /\ Quiet /\ targetValue = NULL /\ totalAttempts = 0
    /\ attemptHistory = << >> /\ exhaustedWorkers = {} /\ result = Hidden

\* C16: reset, from any state, leaves the coordinator Idle (run not active,
\* no live worker or timer, target cleared, totalAttempts 0, history and
\* exhausted-worker set empty), and no run begins while no target is set.
C16_Reset ==
    /\ [][ResetClick \/ (\E key \in SchemeKeys : SelectScheme(key)) => IdleState']_vars
    /\ [][targetValue = NULL => ~isRunning']_vars
    /\ [](targetValue = NULL => ~isRunning)

\* C16 witness: Idle after the reset of a run in which a worker had failed
\* (the record of failed workers is the one thing reset leaves behind)
C16_Witness ==
    /\ IdleState /\ obs = NoObs /\ selectedScheme # NoScheme
    /\ workerErrors # << >>

\* a run begins with this step
Starts == isRunning' /\ ~isRunning

\* C17: a successful start resets the run state and spawns the pool: right
\* after it totalAttempts is 0, the history and the records of exhausted and
\* failed workers are empty whatever the previous run left, and exactly
\* workerCount workers are live, each holding one start task, with the
\* workerIds 0..workerCount-1.
C17_StartResets ==
    [][Starts =>
          /\ totalAttempts' = 0 /\ attemptHistory' = << >>
          /\ exhaustedWorkers' = {} /\ workerErrors' = << >>
          /\ workers' = 0..(controls.workerCount - 1)
          /\ \A w \in WorkerIds :
                IF w \in workers'
                THEN /\ wk'[w].pc = "spawned"
                     /\ wk'[w].task.workerId = w
                     /\ wk'[w].task.workerCount = controls.workerCount
                     /\ wk'[w].task.target = targetValue
                ELSE wk'[w] = NoWorker
          /\ \A w \in WorkerIds : chan'[w] = << >>]_vars

\* a finished run that left attempts, a failed and an exhausted worker
\* behind, from which a new run can be started
C17_Residue ==
    /\ ~isRunning /\ totalAttempts > 0 /\ attemptHistory # << >>
    /\ workerErrors # << >> /\ exhaustedWorkers # {}
    /\ ENABLED (StartSimulation /\ Starts)

\* C17 witness: a run just started with two workers, nothing posted yet
C17_Witness ==
    /\ isRunning /\ obs = [NoObs EXCEPT !.run = TRUE]
    /\ workers = {0, 1} /\ wk[0].pc = "spawned" /\ wk[1].pc = "spawned"
    /\ wk[0].task.workerId = 0 /\ wk[1].task.workerId = 1
    /\ totalAttempts = 0 /\ workerErrors = << >> /\ exhaustedWorkers = {}

\* C18: in Random mode no worker posts Exhausted, so a Random-mode run never
\* ends with reason "exhausted": it ends by match, stop or reset, budget
\* cutoff or worker failure only.
C18_RandomNeverExhausts ==
    obs.run /\ controls.attackMethod = "random" =>
        /\ \A w \in WorkerIds : \A i \in 1..Len(chan[w]) : chan[w][i].type # "exhausted"
        /\ exhaustedWorkers = {} /\ obs.exhausted = {}
        /\ obs.cause \in {"", "match", "stop", "budget", "allFailed"}
        /\ result.message # "exhausted"

\* C18 witness: a Random-mode run whose workers have posted batch after
\* batch without match and are scheduled for more
C18_Witness ==
    /\ isRunning /\ controls.attackMethod = "random"
    /\ obs.events = MaxEvents /\ obs.progress = obs.posted /\ obs.posted >= MaxEvents
    /\ \A w \in workers : wk[w].pc = "scheduled"

\* the values a Sequential or Wordlist run searches
SearchSpace ==
    IF controls.attackMethod = "wordlist"
    THEN {wordlistData.lines[i] : i \in 1..Len(wordlistData.lines)}
    ELSE {FromIndex(selectedScheme, i) : i \in 0..(TotalCount(selectedScheme) - 1)}

\* the outcome the target and the search space determine
Expected == IF targetValue \in SearchSpace THEN "match" ELSE "exhausted"

\* a Sequential or Wordlist run over a search space, without budget, stop
\* or failing worker
Searching ==
    /\ obs.run /\ ~obs.stopped /\ controls.maxAttempts = 0
    /\ \/ controls.attackMethod = "wordlist"
       \/ controls.attackMethod = "sequential" /\ selectedScheme \in ENUMERATORS
    /\ Errored = {}
    /\ \A w \in WorkerIds : \A i \in 1..Len(chan[w]) : chan[w][i].type # "fault"

\* C19: in Sequential or Wordlist mode, without budget and stop, the outcome
\* of a run is the one its target and search space determine (Matched with
\* the target if the space holds it, Failed with reason exhausted if not),
\* for every workerCount and every batchSize; no such run is left without
\* outcome once its workers have halted and their events are processed.
C19_OutcomeIndependent ==
    Searching =>
        /\ obs.cause # "" =>
              /\ obs.cause = Expected
              /\ Expected = "match" =>
                    result.className = "success" /\ result.value = targetValue
              /\ Expected = "exhausted" =>
                    result.className = "failure" /\ result.message = "exhausted"
        /\ isRunning =>
              \E w \in workers : wk[w].pc \in {"spawned", "scheduled"} \/ chan[w] # << >>

\* C19 witness: two workers, batches of 2: worker 0 exhausted its range,
\* worker 1 found the target in the last, shorter range
C19_Witness ==
    /\ Searching /\ controls.attackMethod = "sequential"
    /\ controls.workerCount = 2 /\ controls.speedLimit = 2
    /\ obs.cause = "match" /\ obs.exhausted = {0} /\ obs.match = {1}
    /\ result.value = targetValue

\* ------------------------------------------- the worker script, on its own
\* WorkerSpec: the workers of a run just started, each running its script;
\* the stop message may reach a worker between any two of its tasks, and
\* what the workers post is kept in chan
WorkerInit ==
    /\ selectedScheme \in SchemeKeys
    /\ targetValue \in Targets(selectedScheme)
    /\ controls \in Controls
    /\ wordlistData \in Uploads
    /\ (controls.attackMethod = "wordlist") = (wordlistData # NoWordlist)
    /\ ~WordlistMissing(controls.attackMethod)
    /\ isRunning = TRUE
    /\ totalAttempts = 0
    /\ attemptHistory = << >>
    /\ workerErrors = << >>
    /\ exhaustedWorkers = {}
    /\ workers = 0..(controls.workerCount - 1)
    /\ updateInterval = TRUE
    /\ maxAttemptsCheck = controls.maxAttempts
    /\ result = Hidden
    /\ wk = [w \in WorkerIds |->
               IF w < controls.workerCount
               THEN [NoWorker EXCEPT !.pc = "spawned",
                        !.task = StartTask(w, controls.attackMethod,
                                           controls.workerCount, controls.speedLimit)]
               ELSE NoWorker]
    /\ chan = [w \in WorkerIds |-> << >>]
    /\ obs = [NoObs EXCEPT !.run = TRUE]
    /\ plan = NoPlan

\* self.onmessage for the stop message: running = false
WorkerStop(w) ==
    /\ wk[w].pc \in {"scheduled", "halted"}
    /\ wk[w].running
    /\ wk' = [wk EXCEPT ![w].running = FALSE]
    /\ obs' = [obs EXCEPT !.stopped = TRUE]
    /\ UNCHANGED <<coordVars, chan, plan>>

WorkerNext ==
    \/ \E w \in WorkerIds : WorkerStart(w)
    \/ \E w \in WorkerIds : WorkerBatch(w)
    \/ \E w \in WorkerIds : WorkerStop(w)

WorkerSpec == WorkerInit /\ [][WorkerNext]_vars

\* worker w has handled its start message and its running flag is down
Stopped(w) == wk[w].pc \in {"scheduled", "halted"} /\ ~wk[w].running

\* C20: a worker that has observed the stop signal posts no further event
\* of any kind and stays stopped; a batch scheduled before the stop returns
\* without posting when it runs.
C20_SilentAfterStop ==
    [][\A w \in WorkerIds :
          Stopped(w) => /\ chan'[w] = chan[w]
                        /\ Stopped(w)'
                        /\ wk'[w].pc \in {wk[w].pc, "halted"}]_vars

\* C20 witness: a worker stopped in mid-range: its last event is a Progress,
\* the batch that was scheduled has run and returned, part of the range
\* is unsearched
C20_Witness ==
    \E w \in WorkerIds :
        /\ obs.stopped /\ wk[w].pc = "halted" /\ ~wk[w].running
        /\ wk[w].task.attackMethod = "sequential" /\ wk[w].pos < wk[w].endIdx
        /\ chan[w] # << >> /\ chan[w][Len(chan[w])].type = "progress"

\* the events of a type in a sequence of events
OfType(events, type) == SelectSeq(events, LAMBDA e : e.type = type)

\* the attempts of the Progress events in a sequence of events
RECURSIVE SumAttempts(_)
SumAttempts(events) ==
    IF events = << >> THEN 0
    ELSE (IF Head(events).type = "progress" THEN Head(events).attempts ELSE 0)
         + SumAttempts(Tail(events))

\* the range of indices a Sequential worker is to search
WorkerRange(w) ==
    IndexRange(wk[w].task.workerId, wk[w].task.workerCount,
               TotalCount(wk[w].task.schemeKey))

\* the place of the target among the candidates of worker w, counted from 1
\* (0: the worker's candidates do not hold it)
TargetPlace(w) ==
    LET task == wk[w].task
    IN  IF task.attackMethod = "wordlist"
        THEN LET at == {i \in 1..Len(task.wordlistChunk) :
                          task.wordlistChunk[i] = task.target}
             IN  IF at = {} THEN 0 ELSE CHOOSE i \in at : \A j \in at : i <= j
        ELSE IF task.attackMethod = "sequential" /\ task.schemeKey \in ENUMERATORS
        THEN LET r == WorkerRange(w)
                 at == {i \in r.startIdx..(r.endIdx - 1) :
                          FromIndex(task.schemeKey, i) = task.target}
             IN  IF at = {} THEN 0
                 ELSE (CHOOSE i \in at : \A j \in at : i <= j) - r.startIdx + 1
        ELSE 0

\* C21: a worker, in any mode, posts at most one Match; the Match carries
\* the target, is the last event the worker posts and leaves the worker
\* halted with nothing scheduled; the batch of the match reports no Progress
\* and is left at the first equal candidate, no later candidate is compared.
C21_MatchHalts ==
    \A w \in WorkerIds :
        LET matches == OfType(chan[w], "match")
        IN  /\ Len(matches) <= 1
            /\ Len(matches) = 1 =>
                  /\ chan[w][Len(chan[w])].type = "match"
                  /\ matches[1].value = wk[w].task.target
                  /\ wk[w].pc = "halted" /\ ~wk[w].running
                  /\ obs.compared[w] - SumAttempts(chan[w]) \in 1..wk[w].task.batchSize
                  /\ wk[w].task.attackMethod \in {"sequential", "wordlist"}
                        => obs.compared[w] = TargetPlace(w)

\* C21 witness: a Sequential worker with batches of two found the target as
\* the first candidate of its range and halted, the second candidate of the
\* batch left uncompared
C21_Witness ==
    \E w \in WorkerIds :
        /\ wk[w].task.attackMethod = "sequential" /\ wk[w].task.batchSize = 2
        /\ WorkerRange(w).endIdx - WorkerRange(w).startIdx >= 2
        /\ Len(chan[w]) = 1 /\ chan[w][1].type = "match"
        /\ obs.compared[w] = 1 /\ wk[w].pc = "halted"

\* worker w searches a range: Sequential with an enumerator, or Wordlist
HasRange(w) ==
    \/ wk[w].task.attackMethod = "wordlist"
    \/ wk[w].task.attackMethod = "sequential" /\ wk[w].task.schemeKey \in ENUMERATORS

\* where the range of worker w begins, and how many candidates it holds
RangeStart(w) ==
    IF wk[w].task.attackMethod = "wordlist" THEN 0 ELSE WorkerRange(w).startIdx

RangeSize(w) ==
    IF wk[w].task.attackMethod = "wordlist" THEN Len(wk[w].task.wordlistChunk)
    ELSE IF WorkerRange(w).endIdx > WorkerRange(w).startIdx
    THEN WorkerRange(w).endIdx - WorkerRange(w).startIdx
    ELSE 0

\* the candidate at place i (from 1) of the range of worker w
Candidate(w, i) ==
    IF wk[w].task.attackMethod = "wordlist" THEN wk[w].task.wordlistChunk[i]
    ELSE FromIndex(wk[w].task.schemeKey, RangeStart(w) + i - 1)

\* C22: the Progress events of a Sequential or Wordlist worker report
\* consecutive contiguous batches of its range, each with attempts =
\* min(batchSize, remaining) and the last candidate of the batch; the worker
\* posts Exhausted at most once, as its last event, after Progress events
\* whose attempts sum to the size of the range (none for an empty range) and
\* with every candidate of the range compared.
C22_ContiguousBatches ==
    \A w \in WorkerIds : wk[w].pc # "none" /\ HasRange(w) =>
        LET progress == OfType(chan[w], "progress")
            exhausted == OfType(chan[w], "exhausted")
            batchSize == wk[w].task.batchSize
        IN  /\ \A i \in 1..Len(progress) :
                  /\ progress[i].attempts
                        = Min(batchSize, RangeSize(w) - batchSize * (i - 1))
                  /\ progress[i].attempts > 0
                  /\ progress[i].value
                        = Candidate(w, SumAttempts(SubSeq(progress, 1, i)))
            /\ SumAttempts(chan[w]) <= RangeSize(w)
            /\ Len(exhausted) <= 1
            /\ Len(exhausted) = 1 =>
                  /\ chan[w][Len(chan[w])].type = "exhausted"
                  /\ OfType(chan[w], "match") = << >>
                  /\ SumAttempts(chan[w]) = RangeSize(w)
                  /\ obs.compared[w] = RangeSize(w)
                  /\ wk[w].pc = "halted"

\* C22 witness: a Sequential worker with batches of two whose range holds
\* one candidate: one Progress with attempts 1, then Exhausted
C22_Witness ==
    \E w \in WorkerIds :
        /\ wk[w].task.attackMethod = "sequential" /\ wk[w].task.batchSize = 2
        /\ RangeSize(w) = 1 /\ Len(chan[w]) = 2
        /\ chan[w][1].type = "progress" /\ chan[w][1].attempts = 1
        /\ chan[w][2].type = "exhausted"

\* a worker whose range is empty: Exhausted and no Progress
C22_EmptyRange ==
    \E w \in WorkerIds :
        /\ HasRange(w) /\ wk[w].pc = "halted" /\ RangeSize(w) = 0
        /\ Len(chan[w]) = 1 /\ chan[w][1].type = "exhausted"

\* ------------------------------------ a worker that misreports its id
\* MisreportSpec: the run of WorkerSpec with the coordinator's handlers, the
\* workers posting what the script posts but with any workerId in the
\* payload (-1: no workerId in the payload)
PayloadIds == WorkerIds \cup {-1}

MisreportInit == WorkerInit /\ controls.maxAttempts = 0

\* worker w runs its next task and posts the events with workerId id
Misreport(w, id) ==
    /\ wk[w].pc \in {"spawned", "scheduled"}
    /\ obs.events < MaxEvents
    /\ LET r == IF wk[w].pc = "spawned" THEN OnStart(wk[w], FALSE, NULL)
                 ELSE OnBatch(wk[w], FALSE, NULL)
       IN  WorkerStep(w, [r EXCEPT !.out = [i \in DOMAIN r.out |->
                                             [r.out[i] EXCEPT !.workerId = id]]])

MisreportNext ==
    \/ \E w \in WorkerIds : \E id \in PayloadIds : Misreport(w, id)
    \/ \E w \in WorkerIds : HandleProgress(w)
    \/ \E w \in WorkerIds : HandleMatch(w)
    \/ \E w \in WorkerIds : HandleError(w)
    \/ \E w \in WorkerIds : HandleExhausted(w)

MisreportSpec == MisreportInit /\ [][MisreportNext]_vars

\* C23: the worker ids the coordinator records (attempt history, exhausted
\* set, failed record) are the indices of the workers whose channels
\* delivered the events, whatever workerId the payloads carry.
C23_TransportId ==
    obs.run =>
        /\ exhaustedWorkers = obs.exhausted
        /\ {workerErrors[i] : i \in 1..Len(workerErrors)} = obs.error \cup obs.fault
        /\ {attemptHistory[i].workerId : i \in 1..Len(attemptHistory)} = obs.progressBy

\* ------------------------------------------- the attempt history, on its own
\* HistorySpec: a Random-mode run whose workers deliver Progress events one
\* at a time, more of them than the history keeps; plan.list is the log of
\* the (lastAttempt, workerId) pairs in the order of their arrival
MaxProgress == HistoryLimit + 2

HistoryInit ==
    /\ WorkerInit
    /\ selectedScheme = "otp_6" /\ targetValue = FromIndex("otp_6", 0)
    /\ controls.attackMethod = "random" /\ controls.speedLimit = 1
    /\ controls.maxAttempts = 0

\* worker w posts the Progress event of a batch without match
DeliverProgress(w) ==
    /\ w \in workers
    /\ \A v \in WorkerIds : chan[v] = << >>
    /\ Len(plan.list) < MaxProgress
    /\ LET value == FromIndex(selectedScheme, Len(plan.list) % TotalCount(selectedScheme))
       IN  /\ chan' = [chan EXCEPT ![w] = <<Event("progress", wk[w].task.batchSize, value,
                                                  wk[w].task.workerId)>>]
           /\ plan' = [plan EXCEPT !.mode = "history",
                                   !.list = Append(@, [value |-> value, workerId |-> w])]
    /\ UNCHANGED <<coordVars, wk, obs>>

HistoryNext ==
    \/ \E w \in WorkerIds : DeliverProgress(w)
    \/ \E w \in WorkerIds : HandleProgress(w)

HistorySpec == HistoryInit /\ [][HistoryNext]_vars

\* the newest k entries of a log, newest first
Newest(log, k) == [i \in 1..k |-> log[Len(log) - i + 1]]

\* the Progress events processed: those logged, less the one still in flight
Processed ==
    IF \E w \in WorkerIds : chan[w] # << >>
    THEN SubSeq(plan.list, 1, Len(plan.list) - 1)
    ELSE plan.list

\* C24: the attempt history never holds more than 10 entries, and it is the
\* most recent min(10, n) of the n (lastAttempt, workerId) pairs processed,
\* the newest first: an 11th entry evicts the oldest.
C24_HistoryBounded ==
    /\ Len(attemptHistory) <= HistoryLimit
    /\ attemptHistory = Newest(Processed, Min(HistoryLimit, Len(Processed)))

\* C24 witness: 12 Progress events processed, by two workers, the first two
\* of them evicted
C24_Witness ==
    /\ Len(Processed) = HistoryLimit + 2 /\ Len(attemptHistory) = HistoryLimit
    /\ attemptHistory[HistoryLimit] = plan.list[3]
    /\ attemptHistory[1] = plan.list[HistoryLimit + 2]
    /\ \E i, j \in 1..HistoryLimit : attemptHistory[i].workerId # attemptHistory[j].workerId

\* ------------------------------------------------------------ the estimator
\* The numbers of calculateProbability exceed the integers of the checker, so
\* attempts and combinations are counted in blocks of 4096: with 128
\* generations per batch, attemptsPerSecond = workerCount * 128 * 10 and
\* attemptsPerSecond * 3600 = workerCount * 1125 blocks, exactly; 2^bits is
\* 2^(bits - 12) blocks.
SchemeBits == {14, 20, 24, 32, 33, 40, 46, 47, 48, 58, 62, 74, 122, 126, 128, 160, 256}

BlockBits == 12

AttemptsOneHour(workerCount) == workerCount * 1125

AttemptsOneYear(workerCount) == workerCount * 1125 * 24 * 365

\* a < 2^e, for the a of the model (all below 2^31)
BelowPow2(a, e) == IF e > 30 THEN TRUE ELSE a < 2^e

\* combinations < 1e15: 2^49 < 1e15 < 2^50
SmallSpace(bits) == bits < 50

\* n < combinations * 0.1 (10 * n is never a power of two, so the rounding of
\* the product cannot decide the test)
UnderTenth(n, bits) == BelowPow2(10 * n, bits - BlockBits)

\* 1 - (1 - 1/combinations)^n, kept as the form and its arguments
ExactForm(n, bits) == [form |-> "exact", num |-> n, exp |-> bits - BlockBits]

\* Math.min(1, n / combinations) as the fraction num / 2^exp
LinearForm(n, bits) ==
    IF BelowPow2(n, bits - BlockBits)
    THEN [form |-> "linear", num |-> n, exp |-> bits - BlockBits]
    ELSE [form |-> "linear", num |-> 1, exp |-> 0]

\* calculateProbability: one test, on the attempts of one hour, chooses the
\* form of both horizons
CalculateProbability(bits, workerCount) ==
    IF SmallSpace(bits) /\ UnderTenth(AttemptsOneHour(workerCount), bits)
    THEN [oneHour |-> ExactForm(AttemptsOneHour(workerCount), bits),
          oneYear |-> ExactForm(AttemptsOneYear(workerCount), bits)]
    ELSE [oneHour |-> LinearForm(AttemptsOneHour(workerCount), bits),
          oneYear |-> LinearForm(AttemptsOneYear(workerCount), bits)]

\* EstimatorSpec: the estimate of any scheme's bits with 1..16 workers
EstimatorInit ==
    /\ Idle
    /\ plan \in {[NoPlan EXCEPT !.mode = "estimate", !.total = bits, !.workerCount = n] :
                    bits \in SchemeBits, n \in 1..MaxWorkerCount}

Estimate ==
    /\ plan.mode = "estimate" /\ ~plan.done
    /\ plan' = [plan EXCEPT !.done = TRUE,
                            !.parts = <<CalculateProbability(plan.total, plan.workerCount)>>]
    /\ UNCHANGED <<coordVars, wk, chan, obs>>

EstimatorNext == Estimate

EstimatorSpec == EstimatorInit /\ [][EstimatorNext]_vars

\* the form the claim assigns to a horizon of n attempts
FormFor(n, bits) ==
    IF SmallSpace(bits) /\ UnderTenth(n, bits) THEN "exact" ELSE "linear"

\* C25: each horizon's probability is in the exact form only when the space is
\* small and that horizon's own n is under 10% of the combinations, and in
\* the linear form, which never exceeds 1, otherwise.
C25_BranchPerHorizon ==
    plan.done =>
        LET p == plan.parts[1]
        IN  /\ p.oneHour.form = FormFor(AttemptsOneHour(plan.workerCount), plan.total)
            /\ p.oneYear.form = FormFor(AttemptsOneYear(plan.workerCount), plan.total)
            /\ \A q \in {p.oneHour, p.oneYear} :
                   q.form = "linear" => (q.num = 1 /\ q.exp = 0) \/ BelowPow2(q.num, q.exp)

\* what the code does guarantee: both horizons are in the form the one-hour
\* test selects
C25_BranchOnOneHour ==
    plan.done =>
        LET p == plan.parts[1]
        IN  /\ p.oneHour.form = FormFor(AttemptsOneHour(plan.workerCount), plan.total)
            /\ p.oneYear.form = p.oneHour.form

\* ------------------------------------------------- a search left to itself
\* LiveSpec: a Sequential run over an enumerable scheme, or a Wordlist run,
\* whose search space holds the target; no budget, nobody stops it, no
\* worker fails.  The event loops run every scheduled batch and deliver
\* every posted message: weak fairness of each worker's step and of each
\* channel's handler.
LiveInit ==
    /\ WorkerInit
    /\ controls.maxAttempts = 0
    /\ \/ controls.attackMethod = "wordlist"
       \/ controls.attackMethod = "sequential" /\ selectedScheme \in ENUMERATORS
    /\ targetValue \in SearchSpace

\* worker w handles its start message or runs a scheduled batch; its range
\* is finite, the batches end by themselves
LiveWorker(w) ==
    /\ ~IsRandom(wk[w])
    /\ \/ wk[w].pc = "spawned" /\ WorkerStep(w, OnStart(wk[w], FALSE, NULL))
       \/ wk[w].pc = "scheduled" /\ WorkerStep(w, OnBatch(wk[w], FALSE, NULL))

\* the coordinator handles the oldest message of worker w's channel
LiveHandler(w) ==
    \/ HandleProgress(w)
    \/ HandleMatch(w)
    \/ HandleExhausted(w)

LiveNext ==
    \/ \E w \in WorkerIds : LiveWorker(w)
    \/ \E w \in WorkerIds : LiveHandler(w)

LiveSpec ==
    /\ LiveInit /\ [][LiveNext]_vars
    /\ \A w \in WorkerIds : WF_vars(LiveWorker(w)) /\ WF_vars(LiveHandler(w))

\* the run ended Matched, showing the target
Matched ==
    /\ ~isRunning /\ obs.cause = "match"
    /\ result.className = "success" /\ result.value = targetValue

\* C26: a Sequential run whose target is fromIndex(k) for a k of the space,
\* or a Wordlist run whose wordlist holds the target, without budget and
\* stop and with its workers scheduled fairly, eventually ends Matched with
\* the target, and never ends with reason exhausted.
C26_SearchComplete ==
    /\ <>Matched
    /\ [](result.className # "failure" /\ obs.cause \in {"", "match"})

\* C26 witness: the run ended Matched after another worker had exhausted a
\* range without the target and its Exhausted had been counted
C26_Witness ==
    /\ Matched /\ exhaustedWorkers # {} /\ totalAttempts > 0
    /\ controls.workerCount = MaxWorkers

\* ----------------------------------------------------- more claims on the run
\* C27: when every worker of a run has failed through onerror (its script
\* threw), the run has ended as a failure with the last of these failures
\* instead of staying Running with no active worker.
C27_AllFaultsTerminate ==
    obs.run /\ obs.fault = RunWorkers /\ obs.match = {}
    => /\ ~isRunning
       /\ result.shown /\ result.className = "failure"

\* IsolationSpec: a run just started, its workers and the handlers of their
\* events, the stop button, and the start button pressed again once the run
\* has ended; plan.done records that a run before the current one ended
\* with events of its workers undelivered.
IsolationInit == WorkerInit

StartAgain ==
    /\ ~NotStartable /\ ~WordlistMissing(controls.attackMethod)
    /\ StartRun(controls.attackMethod, controls.workerCount,
                controls.speedLimit, controls.maxAttempts)
    /\ plan' = [plan EXCEPT !.done = @ \/ obs.dropped > 0]

IsolationNext ==
    \/ StartAgain
    \/ StopClick
    \/ \E w \in WorkerIds : WorkerStart(w)
    \/ \E w \in WorkerIds : WorkerBatch(w)
    \/ \E w \in WorkerIds : HandleProgress(w)
    \/ \E w \in WorkerIds : HandleMatch(w)
    \/ \E w \in WorkerIds : HandleError(w)
    \/ \E w \in WorkerIds : HandleExhausted(w)

IsolationSpec == IsolationInit /\ [][IsolationNext]_vars

\* C28: an event of a worker of a run that was stopped or has ended is never
\* applied to a later run: no event is pending after the end of a run, and
\* in a run every pending event and every record (history entry, exhausted
\* worker, failed worker) stems from an event its own workers posted, and
\* totalAttempts from the attempts they posted.
C28_RunIsolation ==
    /\ ~isRunning => \A w \in WorkerIds : chan[w] = << >>
    /\ obs.run =>
          /\ SumLen(chan, WorkerIds) + Len(attemptHistory) + Len(workerErrors)
                + Cardinality(exhaustedWorkers) <= obs.events
          /\ totalAttempts <= obs.posted
          /\ \A w \in WorkerIds : chan[w] # << >> => w \in workers

\* C28 witness: a run started after an earlier one had ended with events
\* undelivered; it has counted attempts and an exhausted worker of its own
C28_Witness ==
    /\ plan.done /\ isRunning
    /\ totalAttempts > 0 /\ totalAttempts = obs.posted /\ exhaustedWorkers # {}
    /\ Len(attemptHistory) + Cardinality(exhaustedWorkers) = obs.events

\* the causes that end a run without a match
Failures == {"budget", "exhausted", "allFailed", "stop"}

\* C29: once a run has ended as a failure (budget reached, exhausted, all
\* workers failed) or was stopped, no later step of that run turns it into
\* a Matched one: a Match its workers had posted is not processed, the run
\* stays ended and the panel stays as it was, without a match result.
C29_FailureFinal ==
    [][obs.cause \in Failures /\ SameRun =>
          /\ ~isRunning'
          /\ result' = result /\ result.className # "success"
          /\ obs'.match = {} /\ obs'.cause = obs.cause]_vars

\* C29 witness: the only worker of a Sequential run had compared its
\* candidates up to the target and posted the Match when the budget check
\* ended the run; the Match was never processed
C29_Witness ==
    /\ obs.cause = "budget" /\ obs.match = {} /\ obs.dropped > 0
    /\ controls.attackMethod = "sequential" /\ selectedScheme \in ENUMERATORS
    /\ controls.workerCount = 1
    /\ obs.compared[0] = targetValue[2] + 1
    /\ ~isRunning /\ result.className = "failure"

\* the candidates the workers in S have compared with the target in this run
RECURSIVE ComparedBy(_)
ComparedBy(S) ==
    IF S = {} THEN 0
    ELSE LET w == CHOOSE x \in S : TRUE
         IN  obs.compared[w] + ComparedBy(S \ {w})

\* C30: totalAttempts never exceeds the number of candidates the workers
\* have compared with the target, and in a run ended Matched it is strictly
\* smaller, as is the total shown with the match: the candidates of the batch
\* that found the match, the matching one included, are not counted.
C30_AttemptsUndercount ==
    obs.run =>
        /\ totalAttempts <= ComparedBy(WorkerIds)
        /\ obs.cause = "match" =>
              /\ totalAttempts < ComparedBy(WorkerIds)
              /\ result.totalAttempts < ComparedBy(WorkerIds)

\* C30 witness: a run ended Matched with every Progress processed; the
\* matching candidate was the first of its batch and is the one candidate
\* missing from the total
C30_Witness ==
    /\ obs.cause = "match" /\ obs.dropped = 0
    /\ totalAttempts > 0 /\ result.totalAttempts = totalAttempts
    /\ ComparedBy(WorkerIds) = totalAttempts + 1

====
